---- MODULE Spec2Model ----
(***************************************************************************)
(* A model of swaggergenerator3.Generator: the example store               *)
(* (provide_example), the path merge (_merge_examples), tokenization       *)
(* (_get_components), per-route generation (_generate_path) and reference  *)
(* matching (_match_references).                                           *)
(*                                                                         *)
(* A path string is modelled by the sequence str.split('/') yields, which  *)
(* is a bijection between strings and non-empty sequences of '/'-free      *)
(* segments: "/users/1" is <<"", "users", "1">>, "/" is <<"", "">>, the    *)
(* empty string is <<"">>.                                                 *)
(***************************************************************************)
EXTENDS Integers, Sequences, FiniteSets, TLC

\* ------------------------------------------------------------------ bounds
\* longest raw path, in segments after the leading '/'
MaxSegs == 3
\* number of provide_example calls
MaxCalls == 3
\* number of examples of one route
MaxExamples == 3
\* number of examples of one route, verb and status code in reference matching
MaxRefExamples == 2

\* ------------------------------------------------------------- path strings
\* Python's None inside a components tuple; no segment of the alphabet equals it.
None == "<None>"
\* the value standing for "components[0] raised IndexError"
IndexError == <<"<IndexError>">>

\* segments that str.isdigit() accepts
Digits == {"1", "2"}
\* segments that _param_pattern (^{.+}$) accepts
Braced == {"{id}", "{param1}", "{param2}", "{param3}", "{param4}"}
\* the segment alphabet of the raw paths explored
Seg == {"", "api", "x", "1", "{id}"}

RECURSIVE SeqsUpTo(_, _)
SeqsUpTo(S, n) ==
    IF n = 0 THEN {<<>>}
    ELSE LET shorter == SeqsUpTo(S, n - 1)
         IN  shorter \cup {Append(s, e) : s \in {t \in shorter : Len(t) = n - 1}, e \in S}

\* raw paths: every string whose split has at most MaxSegs + 1 segments and
\* that is empty or starts with '/'
RawPaths == {<<"">> \o s : s \in SeqsUpTo(Seg, MaxSegs)}

\* base_path values: '', '/api', '/1', '/{id}'
BasePaths == {<<"">>, <<"", "api">>, <<"", "1">>, <<"", "{id}">>}

is_param(ex) == ex \in Braced \/ ex \in Digits

\* "{param%s}" % i
ParamName(i) ==
    CASE i = 1 -> "{param1}"
      [] i = 2 -> "{param2}"
      [] i = 3 -> "{param3}"
      [] OTHER -> "{param4}"

\* number of None among the first n components
NoneCount(components, n) == Cardinality({j \in 1..n : components[j] = None})

\* the loop of build_paramaterized_path: the list `path` it joins
Rendered(components) ==
    [j \in 1..Len(components) |->
        IF components[j] = None THEN ParamName(NoneCount(components, j))
        ELSE components[j]]

\* '/' + '/'.join(path), as the split of the resulting string:
\* '/'.join([]) is '', so () renders as "/" just as ('',) does
build_paramaterized_path(components) ==
    IF components = <<>> THEN <<"", "">> ELSE <<"">> \o Rendered(components)

SubSeqFrom(s, n) == SubSeq(s, n + 1, Len(s))
Prefix(s, n) == SubSeq(s, 1, IF n < Len(s) THEN n ELSE Len(s))

\* the first statement of _get_components: None for the is_param segments
NaiveComponents(path) ==
    [j \in 1..Len(path) |-> IF is_param(path[j]) THEN None ELSE path[j]]

\* base_components are the raw segments of base_path; they are compared with
\* the None-substituted components
StripBase(components, base) ==
    IF base = Prefix(components, Len(base))
    THEN SubSeqFrom(components, Len(base))
    ELSE components

_get_components(path, base) ==
    LET components == StripBase(NaiveComponents(path), base)
    IN  IF components = <<>> THEN IndexError
        ELSE IF components[1] = "" THEN Tail(components) ELSE components

\* a slip: the parameter test on e1 instead of e2
component_matches_reversed(c1, c2) ==
    /\ Len(c1) = Len(c2)
    /\ \A j \in 1..Len(c1) : ~(c1[j] # c2[j] /\ c1[j] # None)

\* a slip: the element loop left out
component_matches_lengths(c1, c2) == Len(c1) = Len(c2)

component_matches(c1, c2) ==
    /\ Len(c1) = Len(c2)
    /\ \A j \in 1..Len(c1) : ~(c1[j] # c2[j] /\ c2[j] # None)

\* ---------------------------------------------------------------- variables
VARIABLES
    \* tokenization round trip (SpecPath)
    tBase, tPath, tStage, tComponents, tTemplated, tAgain,
    \* the Generator: self.base_path, self.existing_schema, self.path_to_examples
    base_path, existing_schema, path_to_examples,
    \* every example handed to provide_example so far, and what the last call did
    provided, outcome,
    \* generate_paths / _merge_examples: position, the live component_examples
    \* dict, the keys of component_examples.copy(), the index of c1 in them,
    \* the last fold made, and the dict _merge_examples returns
    pc, component_examples, copy_keys, c1_index, last_fold, valid_examples,
    \* _generate_path(path, examples): the route's templated path, the examples
    \* the loop has taken so far, the `schema` dict (verb -> operation), the
    \* position and the exception that ended the call
    gPath, gExamples, gSchema, gStage, gError,
    \* reference matching in generate_paths: existing_schema['definitions'], the
    \* response bodies of the examples, the number of them matched so far,
    \* response['schema'], its value before the last call, and the exception
    \* that ended the call
    rDefinitions, rBodies, rIndex, rSchema, rBefore, rError

tvars == <<tBase, tPath, tStage, tComponents, tTemplated, tAgain>>
svars == <<base_path, existing_schema, path_to_examples, provided, outcome>>
mvars == <<pc, component_examples, copy_keys, c1_index, last_fold, valid_examples>>
gvars == <<gPath, gExamples, gSchema, gStage, gError>>
rvars == <<rDefinitions, rBodies, rIndex, rSchema, rBefore, rError>>
vars == <<tvars, svars, mvars, gvars, rvars>>

\* ------------------------------------------------------- the example store
\* request.method values and str.lower() on them
Methods == {"GET", "post"}
Lower(method) == IF method = "GET" THEN "get" ELSE method

\* the raw paths of the examples provided: '', '/', '//', '/x', '/1', '/x/x',
\* '/x/1', '/1/1', '/1/x'
StorePaths ==
    { <<"">>, <<"", "">>, <<"", "", "">>, <<"", "x">>, <<"", "1">>,
      <<"", "x", "x">>, <<"", "x", "1">>, <<"", "1", "1">>, <<"", "1", "x">> }

\* base_path values of the store: '' (the default) and '/x'
StoreBasePaths == {<<"">>, <<"", "x">>}

\* existing_schema: None/{} (falsy), a schema with definitions only, and
\* schemas with 'paths' (an ordered mapping path -> verbs)
NoSchema == [nonempty |-> FALSE, paths |-> <<>>]
ExistingSchemas ==
    { NoSchema,
      [nonempty |-> TRUE, paths |-> <<>>],
      [nonempty |-> TRUE,
       paths |-> << [path |-> <<"", "x", "{id}">>, verbs |-> {"get"}],
                    [path |-> <<"", "{id}">>, verbs |-> {"post"}] >>],
      [nonempty |-> TRUE,
       paths |-> << [path |-> <<"", "1", "x">>, verbs |-> {"get", "post"}],
                    [path |-> <<"", "x">>, verbs |-> {"get"}] >>] }

\* the loop of _known_to_schema from known path k on: "known" at the first
\* path that matches with the verb among its verbs, "raised" when tokenizing
\* a known path raises before that
RECURSIVE KnownFrom(_, _, _, _, _)
KnownFrom(example_components, verb, known_paths, base, k) ==
    IF k > Len(known_paths) THEN "unknown"
    ELSE LET known_components == _get_components(known_paths[k].path, base)
         IN  IF known_components = IndexError THEN "raised"
             ELSE IF /\ component_matches(example_components, known_components)
                     /\ verb \in known_paths[k].verbs
                  THEN "known"
                  ELSE KnownFrom(example_components, verb, known_paths, base, k + 1)

_known_to_schema(example, schema, base) ==
    LET example_components == _get_components(example.path, base)
    IN  IF example_components = IndexError THEN "raised"
        ELSE KnownFrom(example_components, Lower(example.method), schema.paths, base, 1)

\* index of the bucket of raw path p in the store, 0 when it has none
BucketIndex(store, p) ==
    IF \E i \in 1..Len(store) : store[i].path = p
    THEN CHOOSE i \in 1..Len(store) : store[i].path = p
    ELSE 0

\* self.path_to_examples[path].append(example) on the defaultdict
AppendExample(store, example) ==
    LET i == BucketIndex(store, example.path)
    IN  IF i = 0 THEN Append(store, [path |-> example.path, exs |-> <<example>>])
        ELSE [store EXCEPT ![i].exs = Append(@, example)]

\* what `not self.existing_schema or not self._known_to_schema(example)` does
ProvideOutcome(example, schema, base) ==
    IF ~schema.nonempty THEN "stored"
    ELSE LET known == _known_to_schema(example, schema, base)
         IN  IF known = "unknown" THEN "stored" ELSE known

StoreIdle ==
    /\ base_path = <<"">>
    /\ existing_schema = NoSchema
    /\ path_to_examples = <<>>
    /\ provided = <<>>
    /\ outcome = "none"

MergeIdle ==
    /\ pc = "store"
    /\ component_examples = <<>>
    /\ copy_keys = <<>>
    /\ c1_index = 0
    /\ last_fold = [made |-> FALSE, absorbed |-> <<>>, survivor |-> <<>>]
    /\ valid_examples = <<>>

RIdle ==
    /\ rDefinitions = <<>>
    /\ rBodies = <<>>
    /\ rIndex = 0
    /\ rSchema = [leaf |-> FALSE, m |-> <<>>]
    /\ rBefore = [leaf |-> FALSE, m |-> <<>>]
    /\ rError = "none"

GIdle ==
    /\ gPath = <<"">>
    /\ gExamples = <<>>
    /\ gSchema = <<>>
    /\ gStage = "idle"
    /\ gError = "none"

TIdle ==
    /\ tBase = <<"">>
    /\ tPath = <<"">>
    /\ tStage = "idle"
    /\ tComponents = <<>>
    /\ tTemplated = <<>>
    /\ tAgain = <<>>

\* provide_example(request, response): the example is the call's number, its
\* raw path and its method
provide_example(path, method) ==
    LET example == [id |-> Len(provided) + 1, path |-> path, method |-> method]
        what == ProvideOutcome(example, existing_schema, base_path)
    IN  /\ pc = "store"
        /\ Len(provided) < MaxCalls
        /\ provided' = Append(provided, example)
        /\ outcome' = what
        /\ path_to_examples' =
               IF what = "stored" THEN AppendExample(path_to_examples, example)
               ELSE path_to_examples
        /\ UNCHANGED <<base_path, existing_schema, mvars, tvars, gvars, rvars>>

\* ------------------------------------------------------------ the path merge
\* whether the first loop raises: tokenizing some raw path of the store does
NaiveRaises(store, base) ==
    \E k \in 1..Len(store) : _get_components(store[k].path, base) = IndexError

\* component_examples[components].extend(exs) for the first k buckets of the store
RECURSIVE NaiveGroups(_, _, _)
NaiveGroups(store, base, k) ==
    IF k = 0 THEN <<>>
    ELSE LET before == NaiveGroups(store, base, k - 1)
             components == _get_components(store[k].path, base)
         IN  IF \E i \in 1..Len(before) : before[i].c = components
             THEN LET i == CHOOSE i \in 1..Len(before) : before[i].c = components
                  IN  [before EXCEPT ![i].exs = @ \o store[k].exs]
             ELSE Append(before, [c |-> components, exs |-> store[k].exs])

\* a slip: the arguments of component_matches exchanged in the inner loop
FirstMatch_swapped(c1, live) ==
    LET hits == {i \in 1..Len(live) : live[i].c # c1 /\ component_matches(live[i].c, c1)}
    IN  IF hits = {} THEN 0 ELSE CHOOSE i \in hits : \A j \in hits : i <= j

\* the inner loop: the index of the first c2 of the live dict, other than c1,
\* with component_matches(c1, c2); 0 when the loop ends with match = None
FirstMatch(c1, live) ==
    LET hits == {i \in 1..Len(live) : live[i].c # c1 /\ component_matches(c1, live[i].c)}
    IN  IF hits = {} THEN 0 ELSE CHOOSE i \in hits : \A j \in hits : i <= j

Remove(s, i) == SubSeq(s, 1, i - 1) \o SubSeq(s, i + 1, Len(s))

\* my_examples = component_examples.pop(c1); component_examples[match].extend(my_examples)
Fold(live, c1, m) ==
    LET i == CHOOSE i \in 1..Len(live) : live[i].c = c1
        extended == [live EXCEPT ![m].exs = @ \o live[i].exs]
    IN  Remove(extended, i)

\* the dict comprehension of the return statement, over the first k buckets:
\* a key built twice keeps its place and takes the later value
RECURSIVE Templated(_, _)
Templated(live, k) ==
    IF k = 0 THEN <<>>
    ELSE LET before == Templated(live, k - 1)
             key == build_paramaterized_path(live[k].c)
         IN  IF \E i \in 1..Len(before) : before[i].path = key
             THEN LET i == CHOOSE i \in 1..Len(before) : before[i].path = key
                  IN  [before EXCEPT ![i].exs = live[k].exs]
             ELSE Append(before, [path |-> key, exs |-> live[k].exs])

\* generate_paths enters _merge_examples: the naive grouping
DetectNaive ==
    LET groups == NaiveGroups(path_to_examples, base_path, Len(path_to_examples))
    IN  /\ pc = "store"
        /\ IF NaiveRaises(path_to_examples, base_path)
           THEN /\ pc' = "raised"
                /\ UNCHANGED <<component_examples, copy_keys, c1_index>>
           ELSE /\ pc' = "refine"
                /\ component_examples' = groups
                /\ copy_keys' = [i \in 1..Len(groups) |-> groups[i].c]
                /\ c1_index' = 1
        /\ UNCHANGED <<last_fold, valid_examples, svars, tvars, gvars, rvars>>

\* one iteration of `for c1 in component_examples.copy()`
Refine ==
    /\ pc = "refine"
    /\ c1_index <= Len(copy_keys)
    /\ LET c1 == copy_keys[c1_index]
           m == FirstMatch(c1, component_examples)
       IN  \* `if match:` is the truth value of the tuple c2
           IF m # 0 /\ component_examples[m].c # <<>>
           THEN /\ component_examples' = Fold(component_examples, c1, m)
                /\ last_fold' = [made |-> TRUE, absorbed |-> c1,
                                 survivor |-> component_examples[m].c]
           ELSE UNCHANGED <<component_examples, last_fold>>
    /\ c1_index' = c1_index + 1
    /\ UNCHANGED <<pc, copy_keys, valid_examples, svars, tvars, gvars, rvars>>

\* the return statement of _merge_examples
BuildPaths ==
    /\ pc = "refine"
    /\ c1_index > Len(copy_keys)
    /\ valid_examples' = Templated(component_examples, Len(component_examples))
    /\ pc' = "done"
    /\ UNCHANGED <<component_examples, copy_keys, c1_index, last_fold, svars, tvars, gvars, rvars>>

Init ==
    /\ base_path \in StoreBasePaths
    /\ existing_schema = NoSchema
    /\ path_to_examples = <<>>
    /\ provided = <<>>
    /\ outcome = "none"
    /\ MergeIdle
    /\ TIdle
    /\ GIdle
    /\ RIdle

Provide == \E path \in StorePaths : provide_example(path, "GET")

Next == Provide \/ DetectNaive \/ Refine \/ BuildPaths

Spec == Init /\ [][Next]_vars

\* ------------------------------------ SpecStore: provide_example and a schema
SInit ==
    /\ base_path \in StoreBasePaths
    /\ existing_schema \in ExistingSchemas
    /\ path_to_examples = <<>>
    /\ provided = <<>>
    /\ outcome = "none"
    /\ MergeIdle
    /\ TIdle
    /\ GIdle
    /\ RIdle

ProvideAny == \E path \in StorePaths, method \in Methods : provide_example(path, method)

SNext == ProvideAny

SpecStore == SInit /\ [][SNext]_vars

\* ------------------------------------------------- SpecPath: tokenization
TInit ==
    /\ tBase \in BasePaths
    /\ tPath \in RawPaths
    /\ tStage = "path"
    /\ tComponents = <<>>
    /\ tTemplated = <<>>
    /\ tAgain = <<>>
    /\ StoreIdle
    /\ MergeIdle
    /\ GIdle
    /\ RIdle

\* components = self._get_components(path)
Tokenize ==
    /\ tStage = "path"
    /\ tComponents' = _get_components(tPath, tBase)
    /\ tStage' = IF tComponents' = IndexError THEN "raised" ELSE "components"
    /\ UNCHANGED <<tBase, tPath, tTemplated, tAgain>>
    /\ UNCHANGED <<svars, mvars, gvars, rvars>>

\* paths.build_paramaterized_path(components), the key of the merged route
Template ==
    /\ tStage = "components"
    /\ tTemplated' = build_paramaterized_path(tComponents)
    /\ tStage' = "templated"
    /\ UNCHANGED <<tBase, tPath, tComponents, tAgain>>
    /\ UNCHANGED <<svars, mvars, gvars, rvars>>

\* self._get_components(path) on the templated path, in _generate_request_params
Retokenize ==
    /\ tStage = "templated"
    /\ tAgain' = _get_components(tTemplated, tBase)
    /\ tStage' = "again"
    /\ UNCHANGED <<tBase, tPath, tComponents, tTemplated>>
    /\ UNCHANGED <<svars, mvars, gvars, rvars>>

TNext == Tokenize \/ Template \/ Retokenize

SpecPath == TInit /\ [][TNext]_vars

\* ------------------------------------------------ example values and schemas
\* A JSON-like example value carries its Python kind (py): "dict" with props
\* (key -> value), "list" with items (a sequence), "bool", "number", "str",
\* "none". A Python dict of the generator (a schema, a sub-schema) is a node
\* [leaf |-> FALSE, m |-> key -> node]; any other value in it is a leaf.
PyNone == [py |-> "none"]
PyNum == [py |-> "number"]
PyStr == [py |-> "str"]
PyBool == [py |-> "bool"]
PyList(items) == [py |-> "list", items |-> items]
PyDict(props) == [py |-> "dict", props |-> props]

Leaf(v) == [leaf |-> TRUE, v |-> v]
Map(m) == [leaf |-> FALSE, m |-> m]
EmptyDict == Map(<<>>)

\* the isinstance chain of _get_swagger_type, in its order
_get_swagger_type(x) ==
    IF x.py = "dict" THEN "object"
    ELSE IF x.py = "bool" THEN "boolean"
    ELSE IF x.py = "number" THEN "number"
    ELSE IF x.py = "list" THEN "array"
    ELSE IF x.py = "str" THEN "string"
    ELSE "null"

\* whether _generate_schema / _generate_type_params raise EmptyExampleArrayError:
\* they recurse into every property and into the first element of a list
RECURSIVE RaisesEmptyArray(_)
RaisesEmptyArray(body) ==
    IF body.py = "dict"
    THEN \E k \in DOMAIN body.props : RaisesEmptyArray(body.props[k])
    ELSE IF body.py = "list"
    THEN Len(body.items) = 0 \/ RaisesEmptyArray(body.items[1])
    ELSE FALSE

RECURSIVE _generate_schema(_)
_generate_schema(body) ==
    LET _type == _get_swagger_type(body)
    IN  IF _type = "object"
        THEN Map([k \in {"type", "additionalProperties", "properties"} |->
                    IF k = "type" THEN Leaf(_type)
                    ELSE IF k = "additionalProperties" THEN Leaf("False")
                    ELSE Map([q \in DOMAIN body.props |-> _generate_schema(body.props[q])])])
        ELSE IF _type = "array"
        THEN Map([k \in {"type", "items"} |->
                    IF k = "type" THEN Leaf(_type) ELSE _generate_schema(body.items[1])])
        ELSE Map([k \in {"type"} |-> Leaf(_type)])

RECURSIVE _generate_type_params(_)
_generate_type_params(body) ==
    LET _type == _get_swagger_type(body)
    IN  IF _type = "object"
        THEN Map([k \in {"type", "properties"} |->
                    IF k = "type" THEN Leaf(_type)
                    ELSE Map([q \in DOMAIN body.props |-> _generate_type_params(body.props[q])])])
        ELSE IF _type = "array"
        THEN Map([k \in {"type", "items"} |->
                    IF k = "type" THEN Leaf(_type) ELSE _generate_type_params(body.items[1])])
        ELSE Map([k \in {"type"} |-> Leaf(_type)])

\* paths.update_dict(d, u): every key of u is written into d, mappings merged
RECURSIVE update_dict(_, _)
update_dict(d, u) ==
    Map([k \in DOMAIN d.m \cup DOMAIN u.m |->
            IF k \notin DOMAIN u.m THEN d.m[k]
            ELSE IF ~u.m[k].leaf
            THEN update_dict(IF k \in DOMAIN d.m THEN d.m[k] ELSE EmptyDict, u.m[k])
            ELSE u.m[k]])

_merge_response_schema(schema1, schema2) == update_dict(schema1, schema2)

\* _generate_response_params(response, params): params is the response entry
\* already stored for the status code, EmptyDict when there is none
_generate_response_params(response, params) ==
    LET schema == _generate_schema(response)
    IN  [schema |-> IF params # EmptyDict
                    THEN _merge_response_schema(schema, params.schema)
                    ELSE schema,
         description |-> "TODO"]

\* ------------------------------------------------------- request parameters
\* self.query_key_blacklist
query_key_blacklist == {"token"}

\* a parameter dict: name, in, required and its type keys or 'schema' (a body
\* parameter has no 'required' key; it is carried as FALSE and never read)
QueryParam(q) ==
    [name |-> q.name, in |-> "query", required |-> TRUE,
     schema |-> _generate_type_params(q.value)]

\* "param%s" % i
PathParamName(i) ==
    CASE i = 1 -> "param1"
      [] i = 2 -> "param2"
      [] i = 3 -> "param3"
      [] OTHER -> "param4"

PathParam(i) ==
    [name |-> PathParamName(i), in |-> "path", required |-> TRUE,
     schema |-> Map([k \in {"type"} |-> Leaf("string")])]

BodyParam(data) ==
    [name |-> "body_data", in |-> "body", required |-> FALSE,
     schema |-> _generate_schema(data)]

\* the truth value of request.data
Truthy(x) ==
    IF x.py = "none" THEN FALSE
    ELSE IF x.py = "dict" THEN DOMAIN x.props # {}
    ELSE IF x.py = "list" THEN Len(x.items) > 0
    ELSE TRUE

QueryNames(params) == {params[i].name : i \in {j \in 1..Len(params) : params[j]["in"] = "query"}}

SetRequired(param, value) == [param EXCEPT !.required = value]

\* _merge_query_params(params1, params2): params1 is this example's list,
\* params2 the list stored so far
_merge_query_params(params1, params2) ==
    LET names1 == QueryNames(params1)
        names2 == QueryNames(params2)
        marked == [i \in 1..Len(params1) |->
                      IF params1[i]["in"] = "query" /\ params1[i].name \notin names2
                      THEN SetRequired(params1[i], FALSE)
                      ELSE params1[i]]
        left == SelectSeq(params2, LAMBDA q : q["in"] = "query" /\ q.name \notin names1)
    IN  marked \o [i \in 1..Len(left) |-> SetRequired(left[i], FALSE)]

\* the exception _generate_request_params ends with, "none" when it returns:
\* the query loop, then _get_components(path), then the body schema
RequestParamsError(path, request) ==
    IF \E i \in 1..Len(request.query) : RaisesEmptyArray(request.query[i].value)
    THEN "EmptyExampleArrayError"
    ELSE IF _get_components(path, <<"">>) = IndexError THEN "IndexError"
    ELSE IF Truthy(request.data) /\ RaisesEmptyArray(request.data)
    THEN "EmptyExampleArrayError"
    ELSE "none"

_generate_request_params(path, request, params) ==
    LET kept == SelectSeq(request.query, LAMBDA q : q.name \notin query_key_blacklist)
        query_params == [i \in 1..Len(kept) |-> QueryParam(kept[i])]
        components == _get_components(path, <<"">>)
        slots == Cardinality({j \in 1..Len(components) : components[j] = None})
        path_params == [i \in 1..slots |-> PathParam(i)]
        body_params == IF Truthy(request.data) THEN <<BodyParam(request.data)>> ELSE <<>>
        parameters == query_params \o path_params \o body_params
    IN  IF params # <<>> THEN _merge_query_params(parameters, params) ELSE parameters

\* --------------------------------------------------------- _generate_path
\* the operation a verb starts with (the defaultdict's factory); 'parameters'
\* is not a key of it until the first JSON example of the verb
NewOperation ==
    [responses |-> <<>>, description |-> "TODO", summary |-> "",
     has_parameters |-> FALSE, parameters |-> <<>>]

Get(f, k, default) == IF k \in DOMAIN f THEN f[k] ELSE default

Put(f, k, v) == [x \in DOMAIN f \cup {k} |-> IF x = k THEN v ELSE f[x]]

\* example responses and requests of one route
ObjANum == PyDict([a |-> PyNum])
ObjAStr == PyDict([a |-> PyStr])
ObjAEmpty == PyDict([a |-> PyList(<<>>)])
ObjANumB == PyDict([a |-> PyNum, b |-> PyStr])
QNone == <<>>
QOne == <<[name |-> "q", value |-> PyNum]>>
QEmptyList == <<[name |-> "q", value |-> PyList(<<>>)]>>
QToken == <<[name |-> "token", value |-> PyStr], [name |-> "r", value |-> PyStr]>>

GenExample(method, content_type, status_code, data, query, request_data) ==
    [method |-> method, content_type |-> content_type, status_code |-> status_code,
     data |-> data, query |-> query, request_data |-> request_data]

GenExamples ==
    { GenExample("GET", "application/json", "200", d, q, PyNone) :
          d \in {ObjANum, ObjAStr, ObjAEmpty}, q \in {QNone, QOne} }
    \cup
    { GenExample("GET", "application/json", "200", ObjANum, QEmptyList, PyNone),
      GenExample("GET", "application/json", "200", ObjANumB, QToken, PyNone),
      GenExample("GET", "application/json", "404", ObjAStr, QNone, PyNone),
      GenExample("GET", "text/html", "200", PyStr, QNone, PyNone),
      GenExample("post", "application/json", "200", ObjANum, QOne, ObjANum),
      GenExample("post", "application/json", "200", ObjAStr, QNone, ObjAEmpty) }

\* the templated paths of the routes generated: '/x' and '/x/{param1}'
GenPaths == {<<"", "x">>, <<"", "x", "{param1}">>}

\* one iteration of `for ex in examples`
GeneratePathStep(ex) ==
    LET verb == Lower(ex.method)
        op == [Get(gSchema, verb, NewOperation) EXCEPT
                  !.description = "TODO", !.summary = ""]
        json == ex.content_type = "application/json"
        responses ==
            IF json /\ ~RaisesEmptyArray(ex.data)
            THEN Put(op.responses, ex.status_code,
                     _generate_response_params(
                         ex.data, Get(op.responses, ex.status_code, EmptyDict)))
            ELSE op.responses
        request == [query |-> ex.query, data |-> ex.request_data]
        error == IF json THEN RequestParamsError(gPath, request) ELSE "none"
        parameters ==
            IF json THEN _generate_request_params(gPath, request, op.parameters)
            ELSE op.parameters
    IN  /\ gStage = "loop"
        /\ Len(gExamples) < MaxExamples
        /\ gExamples' = Append(gExamples, ex)
        /\ IF error # "none"
           THEN /\ gStage' = "raised"
                /\ gError' = error
                /\ gSchema' = Put(gSchema, verb, [op EXCEPT !.responses = responses])
           ELSE /\ gSchema' = Put(gSchema, verb,
                       [op EXCEPT !.responses = responses,
                                  !.has_parameters = @ \/ json,
                                  !.parameters = parameters])
                /\ UNCHANGED <<gStage, gError>>
        /\ UNCHANGED <<gPath, tvars, svars, mvars, rvars>>

GeneratePathLoop == \E ex \in GenExamples : GeneratePathStep(ex)

\* `return dict(schema)`
GeneratePathReturn ==
    /\ gStage = "loop"
    /\ gStage' = "done"
    /\ UNCHANGED <<gPath, gExamples, gSchema, gError, tvars, svars, mvars, rvars>>

GInit ==
    /\ gPath \in GenPaths
    /\ gExamples = <<>>
    /\ gSchema = <<>>
    /\ gStage = "loop"
    /\ gError = "none"
    /\ StoreIdle
    /\ MergeIdle
    /\ TIdle
    /\ RIdle

GNext == GeneratePathLoop \/ GeneratePathReturn

SpecGen == GInit /\ [][GNext]_vars

\* ------------------------------------------------------ _match_references
\* A definition of existing_schema['definitions'] is an object schema with a
\* 'required' list; flex.core.validate(definition, body, context) accepts a
\* body that is a mapping holding every required key, and raises
\* ValidationError for any other.
Pet == [name |-> "Pet", required |-> {"name"}]
User == [name |-> "User", required |-> {"id"}]
Loose == [name |-> "Loose", required |-> {}]

validate(definition, body) ==
    body.py = "dict" /\ definition.required \subseteq DOMAIN body.props

\* "#/definitions/%s" % name
RefString(name) ==
    CASE name = "Pet" -> "#/definitions/Pet"
      [] name = "User" -> "#/definitions/User"
      [] OTHER -> "#/definitions/Loose"

RefNode(name) == Map([k \in {"$ref"} |-> Leaf(RefString(name))])

\* a slip: the loop keeps going and the last validating definition wins
RECURSIVE LastValidating(_, _, _)
LastValidating(definitions, body, k) ==
    IF k > Len(definitions) THEN 0
    ELSE LET later == LastValidating(definitions, body, k + 1)
         IN  IF later # 0 THEN later
             ELSE IF validate(definitions[k], body) THEN k ELSE 0

\* the definitions loop from definition k on: the index of the first
\* definition that validates body, 0 when none does
RECURSIVE FirstValidating(_, _, _)
FirstValidating(definitions, body, k) ==
    IF k > Len(definitions) THEN 0
    ELSE IF validate(definitions[k], body) THEN k
    ELSE FirstValidating(definitions, body, k + 1)

IsArrayNode(schema) ==
    schema.m["type"].v = "array" /\ "items" \in DOMAIN schema.m

IsObjectNode(schema) ==
    schema.m["type"].v = "object" /\ "properties" \in DOMAIN schema.m

\* the exception _match_references(schema, body) ends with, "none" when it
\* returns: len() of a number, bool or None and `prop in` one of them raise
\* TypeError, body[0] on a non-empty mapping raises KeyError
RECURSIVE MatchError(_, _, _)
MatchError(schema, body, definitions) ==
    IF "$ref" \in DOMAIN schema.m THEN "none"
    ELSE IF IsArrayNode(schema) /\ body.py \in {"number", "bool", "none"} THEN "TypeError"
    ELSE IF IsArrayNode(schema) /\ body.py = "dict" /\ DOMAIN body.props # {} THEN "KeyError"
    ELSE IF IsArrayNode(schema) /\ body.py = "str"
    THEN MatchError(schema.m["items"], body, definitions)
    ELSE IF IsArrayNode(schema) /\ body.py = "list" /\ Len(body.items) > 0
    THEN MatchError(schema.m["items"], body.items[1], definitions)
    ELSE IF IsObjectNode(schema)
    THEN LET properties == schema.m["properties"].m
         IN  IF body = PyDict(<<>>) THEN "none"
             ELSE IF FirstValidating(definitions, body, 1) # 0 THEN "none"
             ELSE IF DOMAIN properties = {} THEN "none"
             ELSE IF body.py \in {"number", "bool", "none"} THEN "TypeError"
             ELSE IF body.py # "dict" THEN "none"
             ELSE LET bad == {p \in DOMAIN properties \cap DOMAIN body.props :
                                 MatchError(properties[p], body.props[p], definitions) # "none"}
                  IN  IF bad = {} THEN "none"
                      ELSE MatchError(properties[CHOOSE p \in bad : TRUE],
                                      body.props[CHOOSE p \in bad : TRUE], definitions)
    ELSE "none"

\* the schema _match_references(schema, body) returns when it does not raise;
\* a str body is a one-character string, so body[0] is body
RECURSIVE _match_references(_, _, _)
_match_references(schema, body, definitions) ==
    IF "$ref" \in DOMAIN schema.m THEN schema
    ELSE IF IsArrayNode(schema) /\ body.py = "str"
    THEN Map(Put(schema.m, "items",
                 _match_references(schema.m["items"], body, definitions)))
    ELSE IF IsArrayNode(schema) /\ body.py = "list" /\ Len(body.items) > 0
    THEN Map(Put(schema.m, "items",
                 _match_references(schema.m["items"], body.items[1], definitions)))
    ELSE IF IsObjectNode(schema)
    THEN LET properties == schema.m["properties"].m
             first == FirstValidating(definitions, body, 1)
         IN  IF body = PyDict(<<>>) THEN schema
             ELSE IF first # 0 THEN RefNode(definitions[first].name)
             ELSE IF body.py # "dict" THEN schema
             ELSE Map(Put(schema.m, "properties",
                      Map([p \in DOMAIN properties |->
                              IF p \in DOMAIN body.props
                              THEN _match_references(properties[p], body.props[p], definitions)
                              ELSE properties[p]])))
    ELSE schema

\* the response bodies of the examples of one route, verb and status code
RefBodies ==
    { PyDict(<<>>),
      PyDict([name |-> PyStr]),
      PyDict([id |-> PyNum]),
      PyDict([name |-> PyStr, id |-> PyNum]),
      PyDict([o |-> PyDict([name |-> PyStr])]),
      PyDict([o |-> PyDict(<<>>)]),
      PyDict([o |-> PyNum]),
      PyDict([l |-> PyList(<<PyDict([id |-> PyNum])>>)]) }

\* existing_schema['definitions'], in the order the caller supplied them
DefinitionIndexes ==
    { <<>>, <<Pet>>, <<Pet, User>>, <<User, Pet>>, <<Pet, Loose>>, <<Loose, Pet>> }

\* the response schema _generate_path leaves for the first k bodies
RECURSIVE ResponseSchema(_, _)
ResponseSchema(bodies, k) ==
    IF k = 1 THEN _generate_schema(bodies[1])
    ELSE _merge_response_schema(_generate_schema(bodies[k]), ResponseSchema(bodies, k - 1))

RInit ==
    /\ rDefinitions \in DefinitionIndexes
    /\ rBodies \in {b \in SeqsUpTo(RefBodies, MaxRefExamples) : Len(b) >= 1}
    /\ rIndex = 0
    /\ rSchema = ResponseSchema(rBodies, Len(rBodies))
    /\ rBefore = EmptyDict
    /\ rError = "none"
    /\ StoreIdle
    /\ MergeIdle
    /\ TIdle
    /\ GIdle

\* one iteration of the loop of generate_paths over the route's examples:
\* response['schema'] = self._match_references(response['schema'], example.response.data)
MatchReferences ==
    LET body == rBodies[rIndex + 1]
        error == MatchError(rSchema, body, rDefinitions)
    IN  /\ rIndex < Len(rBodies)
        /\ rError = "none"
        /\ rIndex' = rIndex + 1
        /\ rBefore' = rSchema
        /\ rError' = error
        /\ rSchema' = IF error = "none"
                      THEN _match_references(rSchema, body, rDefinitions)
                      ELSE rSchema
        /\ UNCHANGED <<rDefinitions, rBodies, tvars, svars, mvars, gvars>>

RNext == MatchReferences

SpecRef == RInit /\ [][RNext]_vars

\* ------------------------------------------------------------------ claims
\* the examples of a dict of buckets, bucket after bucket
RECURSIVE Flatten(_, _)
Flatten(buckets, k) ==
    IF k = 0 THEN <<>> ELSE Flatten(buckets, k - 1) \o buckets[k].exs

Occurrences(e, buckets) ==
    LET all == Flatten(buckets, Len(buckets))
    IN  Cardinality({i \in 1..Len(all) : all[i] = e})

ExamplesOf(buckets) ==
    LET all == Flatten(buckets, Len(buckets))
    IN  {all[i] : i \in 1..Len(all)}

\* C1: when _merge_examples returns, every stored example sits in exactly one
\* final route bucket, exactly as often as in the store: none is dropped and
\* none is duplicated.
C1_EveryExampleInOneFinalBucket ==
    pc = "done" =>
        \A e \in ExamplesOf(path_to_examples) \cup ExamplesOf(valid_examples) :
            Occurrences(e, valid_examples) = Occurrences(e, path_to_examples)

\* the positions where raw paths P and L differ
Differing(P, L) == {j \in 1..Len(P) : P[j] # L[j]}

\* raw paths of equal length that differ only where P has a segment recognized
\* as a parameter and L an ordinary (non-empty) literal
ParamVsLiteral(P, L) ==
    /\ Len(P) = Len(L)
    /\ Differing(P, L) # {}
    /\ \A j \in Differing(P, L) : is_param(P[j]) /\ ~is_param(L[j]) /\ L[j] # ""

ParamNames == {"{param1}", "{param2}", "{param3}", "{param4}"}

\* the result is one route holding every stored example, its key has a
\* {paramN} at the positions where P and L differ (counted from the end, as
\* tokenization only removes leading segments), and L's own path is no key
OneParameterizedRoute(P, L) ==
    /\ Len(valid_examples) = 1
    /\ ExamplesOf(valid_examples) = ExamplesOf(path_to_examples)
    /\ LET key == valid_examples[1].path
       IN  /\ \A j \in Differing(P, L) :
                 LET q == j - (Len(P) - Len(key))
                 IN  q \in 1..Len(key) /\ key[q] \in ParamNames
           /\ key # L
           /\ key # build_paramaterized_path(_get_components(L, base_path))

\* the store holds exactly the two raw paths P and L, in either order
StoreIs(P, L) ==
    /\ Len(path_to_examples) = 2
    /\ {path_to_examples[1].path, path_to_examples[2].path} = {P, L}

SameStripping(P, L) ==
    /\ _get_components(P, base_path) # IndexError
    /\ _get_components(L, base_path) # IndexError
    /\ Len(_get_components(P, base_path)) = Len(_get_components(L, base_path))

C4_SurvivorIsMoreLiteral ==
    last_fold.made =>
        \A j \in 1..Len(last_fold.survivor) :
            ~(last_fold.survivor[j] = None /\ last_fold.absorbed[j] # None)

\* C4 amended: in every fold the survivor is the more parameterized pattern
\* and the absorbed bucket the more literal one: the two have the same length,
\* agree wherever the survivor has a literal, and the survivor has a parameter
\* slot at some position where the absorbed bucket has a literal; the survivor
\* never has a literal where the absorbed bucket has a parameter slot.
C4_SurvivorIsMoreParameterized ==
    last_fold.made =>
        /\ Len(last_fold.survivor) = Len(last_fold.absorbed)
        /\ \A j \in 1..Len(last_fold.survivor) :
              /\ ~(last_fold.absorbed[j] = None /\ last_fold.survivor[j] # None)
              /\ last_fold.survivor[j] # None
                    => last_fold.absorbed[j] = last_fold.survivor[j]
        /\ \E j \in 1..Len(last_fold.survivor) :
              last_fold.survivor[j] = None /\ last_fold.absorbed[j] # None

\* C4 witness: a fold was made into a bucket that had itself absorbed another
\* (a chain), and the merge has returned.
C4_Witness ==
    /\ pc = "done"
    /\ last_fold.made
    /\ last_fold.absorbed = <<"x", None>>
    /\ last_fold.survivor = <<None, None>>
    /\ Len(valid_examples) = 1
    /\ Len(path_to_examples) = 3

\* C8: "known" as the claim words it
ClaimKnown(e) ==
    /\ existing_schema.nonempty
    /\ \E k \in 1..Len(existing_schema.paths) :
          LET ec == _get_components(e.path, base_path)
              kc == _get_components(existing_schema.paths[k].path, base_path)
          IN  /\ ec # IndexError
              /\ kc # IndexError
              /\ component_matches(ec, kc)
              /\ Lower(e.method) \in existing_schema.paths[k].verbs

ShouldBeStored(e) == ~ClaimKnown(e)

BucketOf(p) ==
    LET i == BucketIndex(path_to_examples, p)
    IN  IF i = 0 THEN <<>> ELSE path_to_examples[i].exs

ProvidedAt(p, e) == e.path = p /\ ShouldBeStored(e)

\* C8: after any sequence of provide_example calls the bucket of every raw
\* path p holds, in call order and with duplicates, exactly the provided
\* examples of path p that are not known to the existing schema.
C8_StoreHoldsUnknownExamples ==
    \A p \in StorePaths :
        BucketOf(p) = SelectSeq(provided, LAMBDA e : ProvidedAt(p, e))

\* what the claim says tokenization returns: the base path's segments removed
\* when the path's leading segments are textually those of the base path, an
\* empty leading segment discarded, None for the is_param segments
TokenizationAsSpecified(path, base) ==
    LET stripped == IF base = Prefix(path, Len(base))
                    THEN SubSeqFrom(path, Len(base)) ELSE path
        rest == IF stripped # <<>> /\ stripped[1] = "" THEN Tail(stripped) ELSE stripped
    IN  [j \in 1..Len(rest) |-> IF is_param(rest[j]) THEN None ELSE rest[j]]

\* C10: _get_components returns, without raising, the segments after the
\* textual base path and an empty leading segment, with None for parameters.
C10_TokenizationStripsBasePath ==
    tStage \in {"components", "raised"} =>
        /\ tStage # "raised"
        /\ tComponents = TokenizationAsSpecified(tPath, tBase)

\* C7: tokenizing the templated path of a components sequence again, with the
\* same base path, gives a sequence of the same length with None at the same
\* positions and the same literals elsewhere.
C7_TemplatedPathRoundTrips ==
    tStage = "again" =>
        /\ tAgain # IndexError
        /\ Len(tAgain) = Len(tComponents)
        /\ \A j \in 1..Len(tComponents) : tAgain[j] = tComponents[j]

\* the examples of the route the loop took for `verb` with a JSON response:
\* those whose request parameters were generated and merged
MergedExamples(verb) ==
    {i \in 1..Len(gExamples) :
        Lower(gExamples[i].method) = verb /\ gExamples[i].content_type = "application/json"}

InQueryString(name, ex) == \E i \in 1..Len(ex.query) : ex.query[i].name = name

\* C2: when _generate_path has returned, a query parameter of a verb's
\* parameters list is required exactly when its name is in the query string
\* of every example merged for that route and verb.
C2_RequiredIffInEveryExample ==
    gStage = "done" =>
        \A verb \in DOMAIN gSchema :
            \A k \in 1..Len(gSchema[verb].parameters) :
                LET param == gSchema[verb].parameters[k]
                IN  param["in"] = "query" =>
                        (param.required <=>
                            \A i \in MergedExamples(verb) :
                                InQueryString(param.name, gExamples[i]))

\* the examples folded into the response schema of (verb, status) that have
\* property prop: JSON responses whose schema was generated without the
\* empty-array error
Contributing(verb, status, prop) ==
    {i \in 1..Len(gExamples) :
        /\ Lower(gExamples[i].method) = verb
        /\ gExamples[i].status_code = status
        /\ gExamples[i].content_type = "application/json"
        /\ ~RaisesEmptyArray(gExamples[i].data)
        /\ gExamples[i].data.py = "dict"
        /\ prop \in DOMAIN gExamples[i].data.props}

Last(S) == CHOOSE i \in S : \A j \in S : j <= i

\* C5: when _generate_path has returned, the type tag of every property of a
\* merged response schema is the one of the last-processed example that has
\* the property.
C5_LaterExampleWinsLeaf ==
    gStage = "done" =>
        \A verb \in DOMAIN gSchema :
            \A status \in DOMAIN gSchema[verb].responses :
                LET properties == gSchema[verb].responses[status].schema.m["properties"].m
                IN  \A prop \in DOMAIN properties :
                        LET last == gExamples[Last(Contributing(verb, status, prop))]
                        IN  properties[prop].m["type"].v
                                = _get_swagger_type(last.data.props[prop])

\* C6: generation never ends with EmptyExampleArrayError, and every example
\* taken, also one with an empty array, leaves an entry for its verb.
C6_EmptyArrayNeverFatal ==
    /\ gError # "EmptyExampleArrayError"
    /\ \A i \in 1..Len(gExamples) : Lower(gExamples[i].method) \in DOMAIN gSchema

\* the definitions of the index that validate body
Validating(body) ==
    {i \in 1..Len(rDefinitions) : validate(rDefinitions[i], body)}

\* what the claim says of one node and its example value, followed into the
\* properties present in the example (and into the items of a non-empty array)
RECURSIVE NodeRewritten(_, _, _)
NodeRewritten(before, body, after) ==
    IF "$ref" \in DOMAIN before.m THEN after = before
    ELSE IF IsObjectNode(before) /\ body.py = "dict"
    THEN IF DOMAIN body.props = {} THEN after = before
         ELSE IF Validating(body) # {}
         THEN LET first == CHOOSE i \in Validating(body) : \A j \in Validating(body) : i <= j
              IN  /\ DOMAIN after.m = {"$ref"}
                  /\ after.m["$ref"] = Leaf(RefString(rDefinitions[first].name))
         ELSE /\ DOMAIN after.m = DOMAIN before.m
              /\ \A k \in DOMAIN before.m \ {"properties"} : after.m[k] = before.m[k]
              /\ DOMAIN after.m["properties"].m = DOMAIN before.m["properties"].m
              /\ \A p \in DOMAIN before.m["properties"].m :
                    IF p \in DOMAIN body.props
                    THEN NodeRewritten(before.m["properties"].m[p], body.props[p],
                                       after.m["properties"].m[p])
                    ELSE after.m["properties"].m[p] = before.m["properties"].m[p]
    ELSE IF IsArrayNode(before) /\ body.py = "list" /\ Len(body.items) > 0
    THEN /\ DOMAIN after.m = DOMAIN before.m
         /\ \A k \in DOMAIN before.m \ {"items"} : after.m[k] = before.m[k]
         /\ NodeRewritten(before.m["items"], body.items[1], after.m["items"])
    ELSE TRUE

\* C9: every call of _match_references that returns has rewritten each object
\* node whose example value is a non-empty mapping into a bare $ref to the
\* first definition of the index that validates the value, or, when none
\* validates, has kept the node an object and rewritten only its properties
\* present in the example; a reference node and an object node whose example
\* value is the empty mapping are returned unchanged; and the call returns
\* whenever the node is a reference, the value is the empty mapping or a
\* definition validates it.
C9_FirstValidatingDefinitionWins ==
    rIndex >= 1 =>
        LET body == rBodies[rIndex]
        IN  /\ rError = "none" => NodeRewritten(rBefore, body, rSchema)
            /\ ("$ref" \in DOMAIN rBefore.m \/ DOMAIN body.props = {}
                    \/ Validating(body) # {}) => rError = "none"

\* C9 witness: a value that two definitions validate was matched against an
\* inferred object node, and the node became a reference to the one supplied
\* first.
C9_Witness ==
    /\ rIndex = 1
    /\ rDefinitions = <<User, Pet>>
    /\ rBodies[1] = PyDict([name |-> PyStr, id |-> PyNum])
    /\ IsObjectNode(rBefore)
    /\ rSchema = RefNode("User")

\* the examples of a bucket, as a set
InBucket(bucket) == {bucket.exs[i] : i \in 1..Len(bucket.exs)}

\* the final buckets: the entries of component_examples when the refinement
\* loop has ended, each a pattern c with its examples
FinalBuckets == {component_examples[i] : i \in 1..Len(component_examples)}

====
